---- MODULE Spec2Model ----
(***************************************************************************)
(* Model of src/server/log.rs: the in-memory append-only Log.               *)
(*                                                                          *)
(* A Record is { value: Vec<u8>, offset: u64 }.  A Vec<u8> is a handle to   *)
(* a heap buffer, so a record is modelled as [value |-> buffer id,          *)
(* offset |-> number] and the buffers' bytes live in `heap`.  That keeps    *)
(* the difference between Record::clone (a new buffer with the same bytes)  *)
(* and a handle to the same buffer visible to the model.                    *)
(*                                                                          *)
(* Sequences are 1-based here and 0-based in the code: the record at        *)
(* position i of the Vec is records[i + 1].                                 *)
(***************************************************************************)
EXTENDS Integers, Sequences, FiniteSets

\* ---------------------------------------------------------------- bounds
\* Most records the log is grown to.
MaxLen == 3
\* The far end of the offsets handed to read: the largest offset the model
\* checker's integers leave room for.  read only compares its argument with
\* the length, so every offset above the length takes the same path.
BigOffset == 2147483646

\* Payloads the callers use: [], [0x61] and [0x62, 0x63].
Payloads == {<< >>, <<97>>, <<98, 99>>}
\* Values a caller puts in the offset field of the record it hands to append.
CallerOffsets == {0, 999}
\* Offsets handed to read: every position, the length itself, and the far end.
ReadArgs == 0..MaxLen \cup {BigOffset}
\* Heap buffers: one per stored record, one for the record the caller holds
\* and one for the copy being made while the caller still holds the old one.
BufIds == 0..(MaxLen + 1)

VARIABLES
    records,   \* Log.records: Vec<Record>
    heap,      \* bytes of every buffer; a buffer that is not live is empty
    live,      \* the buffers currently owned by some Vec<u8>
    held,      \* the Record the caller got from its last successful read: {} or {r}
    call,      \* the last call made, its arguments and what it returned (by value)
    appends,   \* history: the payload and the returned offset of every append
    lock,      \* the consumer's lock around a shared log: {} or {the producer in}
    got        \* per producer: the offsets append returned to it, with its payloads

\* The producers that share one log behind the consumer's lock.
Producers == {1, 2}

vars == <<records, heap, live, held, call, appends, lock, got>>
\* What only the sharing of a log touches.
sharing == <<lock, got>>

\* ------------------------------------------------------------ allocation
\* The buffer of a Vec<u8> the caller builds: the lowest one that is not live.
NewBuf(lv) == CHOOSE b \in BufIds \ lv : \A c \in BufIds \ lv : b <= c
\* The buffer a clone allocates: the highest one that is not live.  Which
\* buffer an allocation yields is up to the allocator; taking the two kinds
\* from opposite ends keeps the stored records in buffers 0, 1, 2, ...
NewCloneBuf(lv) == CHOOSE b \in BufIds \ lv : \A c \in BufIds \ lv : b >= c

\* ----------------------------------------------------------- Log::new_log
\* Self { records: Vec::new() }   (mutant: the log starts with a default record)
NewLogWithRecord == <<[value |-> 0, offset |-> 0]>>
new_log == << >>

\* ------------------------------------------------------------ Log::append
\* let offset: u64 = self.records.len() as u64;
\* (mutants: the length after the push; the index of the last record)
AppendOffsetAfterPush(recs) == Len(recs) + 1
AppendOffsetOfLast(recs) == IF Len(recs) = 0 THEN 0 ELSE Len(recs) - 1
AppendOffset(recs) == Len(recs)

\* record.offset = offset;   (mutant: the caller's offset field is kept)
KeepCallerOffset(record, offset) == record
SetOffset(record, offset) == [record EXCEPT !.offset = offset]

\* self.records.push(record);   (mutants: insert at the front; replace the last)
PushFront(recs, record) == <<record>> \o recs
PushOverLast(recs, record) ==
    IF Len(recs) = 0 THEN <<record>>
    ELSE [recs EXCEPT ![Len(recs)] = record]
Push(recs, record) == Append(recs, record)

\* Ok(offset) is the only return of append: it has no Err path
\* (mutant: a capacity limit that answers Err once two records are stored).
AppendFailsWhenFull(recs, record) == Len(recs) < 2
AppendIsOk(recs, record) == TRUE

\* Ok(offset)   (mutant: the new length is returned)
AppendReturnsNewLen(recs, offset) == offset + 1
AppendResult(recs, offset) == offset

\* -------------------------------------------------------------- Log::read
\* let max_size: u64 = self.records.len() as u64;   (mutant: one too many)
MaxSizePlusOne(recs) == Len(recs) + 1
MaxSize(recs) == Len(recs)

\* if offset >= max_size { return Err(..) }   (mutant: > instead of >=)
OutOfRangeStrict(offset, max_size) == offset > max_size
OutOfRange(offset, max_size) == offset >= max_size

\* offset as usize: usize is 64 bits wide on the targets modelled, and the
\* offsets of the model are below 2^31, so the cast keeps the value.
AsUsize(offset) == offset

\* self.records[i]: the slice index is bounds-checked and panics outside.
InBounds(recs, i) == i < Len(recs)

\* self.records[offset as usize]   (mutant: counted from the back)
IndexFromBack(recs, i) == recs[Len(recs) - i]
Index(recs, i) == recs[i + 1]

\* &self: read has shared access, the Vec it leaves is the Vec it found
\* (mutant: the record read is taken out of the log).
ReadRemoves(recs, i) == [k \in 1..(Len(recs) - 1) |-> IF k <= i THEN recs[k] ELSE recs[k + 1]]
ReadLeaves(recs, i) == recs

\* Record::clone, the value field: Vec<u8>::clone allocates a new buffer
\* (mutant: the clone shares the buffer of the original).
CloneValueShared(v, lv) == v
CloneValue(v, lv) == NewCloneBuf(lv)

ErrMsg == "Offset exceeded length of Log"

\* What read(offset) returns on a log holding recs, by value.  The third
\* outcome is the panic of the bounds-checked index at line 32; the range
\* check before it keeps the code away from it.
ReadResult(recs, h, offset) ==
    IF OutOfRange(offset, MaxSize(recs))
    THEN [ok |-> FALSE, panic |-> FALSE, err |-> ErrMsg]
    ELSE IF ~InBounds(recs, AsUsize(offset))
    THEN [ok |-> FALSE, panic |-> TRUE, err |-> "index out of bounds"]
    ELSE LET r == Index(recs, AsUsize(offset))
         IN  [ok |-> TRUE, panic |-> FALSE,
              ret |-> [value |-> h[r.value], offset |-> r.offset]]

\* ------------------------------------------------ what the log holds, by value
Stored(recs, h, i) == [value |-> h[recs[i + 1].value], offset |-> recs[i + 1].offset]
StoredSeq(recs, h) == [k \in 1..Len(recs) |-> Stored(recs, h, k - 1)]

\* ------------------------------------------------------------------- Init
Init ==
    /\ records = new_log
    /\ heap = [b \in BufIds |-> << >>]
    /\ live = {}
    /\ held = {}
    /\ call = [op |-> "new_log"]
    /\ appends = << >>
    /\ lock = {}
    /\ got = [t \in Producers |-> {}]

\* ---------------------------------------------------------------- actions
\* The caller builds Record { value: p, offset: c } and calls log.append(record).
DoAppend(p, c) ==
    /\ Len(records) < MaxLen
    /\ LET b      == NewBuf(live)
           record == [value |-> b, offset |-> c]
           offset == AppendOffset(records)
           stored == SetOffset(record, offset)
           ret    == AppendResult(records, offset)
       IN  /\ records' = Push(records, stored)
           /\ heap' = [heap EXCEPT ![b] = p]
           /\ live' = live \cup {b}
           /\ call' = [op |-> "append", value |-> p, offset |-> c,
                       ok |-> AppendIsOk(records, record), ret |-> ret]
           /\ appends' = Append(appends, [value |-> p, ret |-> ret])
    /\ UNCHANGED held

\* The caller calls log.read(offset) and keeps the record of an Ok result in
\* place of the one it held before, which is dropped once the call is over.
\* call.repeat tells that the call before this one was a read of the same offset.
DoRead(offset) ==
    LET res == ReadResult(records, heap, offset) IN
    /\ call' = [op |-> "read", arg |-> offset, res |-> res,
                repeat |-> (call.op = "read" /\ call.arg = offset)]
    /\ IF ~res.ok
       THEN UNCHANGED <<records, heap, live, held, appends>>
       ELSE LET r       == Index(records, AsUsize(offset))
                b       == CloneValue(r.value, live)
                copy    == [value |-> b, offset |-> r.offset]
                dropped == {h.value : h \in held} \ {b}
                bytes   == heap[r.value]
            IN  /\ records' = ReadLeaves(records, AsUsize(offset))
                /\ heap' = [x \in BufIds |->
                               IF x = b THEN bytes
                               ELSE IF x \in dropped THEN << >>
                               ELSE heap[x]]
                /\ live' = (live \cup {b}) \ dropped
                /\ held' = {copy}
                /\ UNCHANGED appends

\* The caller overwrites, in place, the bytes of the record it got from read.
MutateHeldValue(p) ==
    /\ held # {}
    /\ \E h \in held :
          /\ heap[h.value] # p
          /\ heap' = [heap EXCEPT ![h.value] = p]
    /\ call' = [op |-> "mutate_value"]
    /\ UNCHANGED <<records, live, held, appends>>
    /\ UNCHANGED sharing

\* The caller assigns the offset field of the record it got from read.
MutateHeldOffset(c) ==
    /\ held # {}
    /\ \E h \in held :
          /\ h.offset # c
          /\ held' = {[h EXCEPT !.offset = c]}
    /\ call' = [op |-> "mutate_offset"]
    /\ UNCHANGED <<records, heap, live, appends>>
    /\ UNCHANGED sharing

\* append and read called by the one holder that owns the log: no lock is used.
OwnerAppend(p, c) == DoAppend(p, c) /\ UNCHANGED sharing
OwnerRead(offset) == DoRead(offset) /\ UNCHANGED sharing

Next ==
    \/ \E p \in Payloads, c \in CallerOffsets : OwnerAppend(p, c)
    \/ \E offset \in ReadArgs : OwnerRead(offset)
    \/ \E p \in Payloads : MutateHeldValue(p)
    \/ \E c \in CallerOffsets : MutateHeldOffset(c)

Spec == Init /\ [][Next]_vars

\* The shape of the state: every stored record owns a live buffer, no two
\* records share one, and the caller's record owns a buffer of its own.
TypeOK ==
    /\ Len(records) <= MaxLen
    /\ live \subseteq BufIds
    /\ \A i \in 1..Len(records) : records[i].value \in live
    /\ \A i, j \in 1..Len(records) : i # j => records[i].value # records[j].value
    /\ \A h \in held : \A i \in 1..Len(records) : h.value # records[i].value

\* ===================================================================== claims
\* The result of read on an offset at or past the length: the one domain
\* error, OffsetOutOfRange, carried as the message of the Err.
IsOffsetOutOfRange(res) == ~res.ok /\ ~res.panic /\ res.err = ErrMsg

\* --------------------------------------------------------------------- C1
\* C1: in every state reached from new_log() by append and read calls, the
\* record stored at position i (0 <= i < N) has offset i: the offsets are
\* dense, with no gap and no duplicate.
C1_DenseOffsets ==
    \A i \in 0..(Len(records) - 1) : Stored(records, heap, i).offset = i

\* Three records are stored, appended with caller offsets that are not their
\* positions, and a read has been served.
C1_Witness ==
    /\ Len(records) = 3
    /\ call.op = "read"
    /\ call.res.ok

\* --------------------------------------------------------------------- C2
\* C2: the i-th append on a fresh log returns offset i (counting from 0),
\* wherever reads are interleaved.
C2_IthAppendReturnsI ==
    \A k \in 1..Len(appends) : appends[k].ret = k - 1

\* Three appends have returned and a read was served before the last of them.
C2_Witness ==
    /\ Len(appends) = 3
    /\ call.op = "append"
    /\ held # {}

\* --------------------------------------------------------------------- C3
\* C3: for every offset i below the length, read(i) succeeds and returns a
\* record whose payload is, byte for byte, the payload of the append that
\* returned i and whose offset field is i.
ReadYieldsAppended(res, i) ==
    /\ res.ok
    /\ res.ret.offset = i
    /\ \E k \in 1..Len(appends) : appends[k].ret = i
    /\ \A k \in 1..Len(appends) :
          appends[k].ret = i => res.ret.value = appends[k].value

C3_ReadReturnsAppended ==
    /\ \A i \in 0..(Len(records) - 1) :
          ReadYieldsAppended(ReadResult(records, heap, i), i)
    /\ (call.op = "read" /\ call.arg < Len(records))
          => ReadYieldsAppended(call.res, call.arg)

\* read(1) has just returned the two-byte payload of the second append, with
\* a different payload stored on either side of it.
C3_Witness ==
    /\ Len(records) = 3
    /\ call.op = "read"
    /\ call.arg = 1
    /\ call.res.ok
    /\ call.res.ret.value = <<98, 99>>
    /\ appends[1].value = <<97>>
    /\ appends[3].value = << >>

\* --------------------------------------------------------------------- C4
\* C4: for every offset v at or past the length (the length itself and the
\* far end of the offsets included), read(v) fails with OffsetOutOfRange and
\* hands the caller no record.
C4_ReadPastEndFails ==
    /\ \A v \in ReadArgs :
          v >= Len(records) => IsOffsetOutOfRange(ReadResult(records, heap, v))
    /\ (call.op = "read" /\ call.arg >= Len(records))
          => IsOffsetOutOfRange(call.res)

\* read(length) has just failed on a log that holds records.
C4_Witness ==
    /\ Len(records) = 2
    /\ call.op = "read"
    /\ call.arg = Len(records)
    /\ ~call.res.ok

\* --------------------------------------------------------------------- C5
\* C5: records are never removed, reordered or mutated: whatever is stored
\* at position i is still stored there, payload and offset, after every
\* further step, and a read(i) that succeeds returns the same record at
\* every later time.
C5_StoredIsStable ==
    [][\A i \in 0..(Len(records) - 1) :
          /\ Len(records') > i
          /\ Stored(records', heap', i) = Stored(records, heap, i)
          /\ ReadResult(records', heap', i) = ReadResult(records, heap, i)]_vars

\* The first record is read back after two more appends were made.
C5_Witness ==
    /\ Len(records) = 3
    /\ call.op = "read"
    /\ call.arg = 0
    /\ call.res.ok
    /\ call.res.ret.value = appends[1].value
    /\ call.res.ret.value # << >>

\* --------------------------------------------------------------------- C6
\* C6: the offset field the caller supplies to append is ignored: append
\* returns the length before the call, the stored record carries that
\* length, and the caller's value c is the offset of no stored record and of
\* no read result, unless c is the offset assigned at that position.
C6_CallerOffsetIgnored ==
    call.op = "append" =>
        LET n == Len(records)
            c == call.offset
        IN  /\ n >= 1
            /\ call.ret = n - 1
            /\ records[n].offset = n - 1
            /\ \A i \in 0..(n - 1) : records[i + 1].offset = c => i = c
            /\ \A v \in ReadArgs :
                  LET res == ReadResult(records, heap, v)
                  IN  (res.ok /\ res.ret.offset = c) => v = c

\* A record with offset field 999 has just been appended to the empty log.
C6_Witness ==
    /\ call.op = "append"
    /\ call.offset = 999
    /\ Len(records) = 1

\* --------------------------------------------------------------------- C7
\* C7: an append on a log of length N stores the record with offset N, makes
\* the length exactly N + 1, returns N, and leaves the N records stored
\* before unchanged.
C7_AppendEffect ==
    [][Len(appends') # Len(appends) =>
          LET N == Len(records)
          IN  /\ Len(records') = N + 1
              /\ records'[N + 1].offset = N
              /\ heap'[records'[N + 1].value] = call'.value
              /\ call'.ret = N
              /\ \A i \in 0..(N - 1) :
                    Stored(records', heap', i) = Stored(records, heap, i)]_vars

\* An append has just been made on a log that held two records.
C7_Witness ==
    /\ call.op = "append"
    /\ Len(records) = 3
    /\ call.ret = 2

\* --------------------------------------------------------------------- C8
\* C8: a read, whether it succeeds or fails with OffsetOutOfRange, leaves
\* the sequence of stored records (length, payloads, offsets) as it was.
C8_ReadLeavesLog ==
    [][call'.op = "read" =>
          StoredSeq(records', heap') = StoredSeq(records, heap)]_vars

\* A read has just succeeded on a log of two records, the caller holding the
\* copy it returned.
C8_Witness ==
    /\ call.op = "read"
    /\ call.res.ok
    /\ Len(records) = 2
    /\ held # {}

\* --------------------------------------------------------------------- C9
\* C9: of two completed appends, the earlier one returned the strictly
\* smaller offset, and the two offsets differ by exactly one when no append
\* came between them; reads in between change nothing.
C9_AppendMonotonic ==
    \A i, j \in 1..Len(appends) :
        i < j => /\ appends[i].ret < appends[j].ret
                 /\ (j = i + 1 => appends[j].ret = appends[i].ret + 1)

\* Two appends with a successful read between them.
C9_Witness ==
    /\ Len(appends) = 2
    /\ call.op = "append"
    /\ held # {}

\* -------------------------------------------------------------------- C10
\* C10: the record read returns is an independent copy: when the caller
\* overwrites its payload or its offset field, the stored records and the
\* result of every later read stay as they were.
C10_CopyIsIndependent ==
    [][call'.op \in {"mutate_value", "mutate_offset"} =>
          /\ StoredSeq(records', heap') = StoredSeq(records, heap)
          /\ \A v \in ReadArgs :
                ReadResult(records', heap', v) = ReadResult(records, heap, v)]_vars

\* The caller has overwritten the payload of the copy of a stored record,
\* which now differs from what the log holds at that offset.
C10_Witness ==
    /\ call.op = "mutate_value"
    /\ \E h \in held : \E i \in 0..(Len(records) - 1) :
          /\ h.offset = i
          /\ heap[h.value] # heap[records[i + 1].value]

\* -------------------------------------------------------------------- C11
\* C11: reads are idempotent: as long as no append is made, read(i) keeps
\* yielding the same outcome for every offset i (the same payload and offset
\* on success, the same error on failure), and a read that repeats the call
\* before it returns what that call returned.
C11_ReadIdempotent ==
    [][/\ Len(appends') = Len(appends) =>
             \A v \in ReadArgs :
                 ReadResult(records', heap', v) = ReadResult(records, heap, v)
       /\ (call.op = "read" /\ call'.op = "read" /\ call'.arg = call.arg) =>
             call'.res = call.res]_vars

\* read(1) has just succeeded for the second time in a row.
C11_Witness ==
    /\ call.op = "read"
    /\ call.repeat
    /\ call.arg = 1
    /\ call.res.ok

\* -------------------------------------------------------------------- C12
\* C12: append has no domain error: in every reachable state, whatever the
\* payload (the empty one included) and the offset field the caller supplies,
\* append returns Ok carrying an offset; a call that returned an error was a
\* read.
C12_AppendNeverFails ==
    /\ call.op = "append" => (call.ok /\ call.ret \in 0..(MaxLen - 1))
    /\ LET failed == \/ call.op = "append" /\ ~call.ok
                     \/ call.op = "read" /\ ~call.res.ok
       IN  failed => call.op = "read"

\* The empty payload with offset field 999 has just been appended as the
\* third record.
C12_Witness ==
    /\ call.op = "append"
    /\ call.value = << >>
    /\ call.offset = 999
    /\ call.ok
    /\ Len(records) = 3

\* -------------------------------------------------------------------- C13
\* C13: a freshly created log is empty: until the first append its length is
\* 0 and read(v) fails with OffsetOutOfRange for every offset v, 0 included;
\* the first append made on it is assigned offset 0.
C13_FreshLogIsEmpty ==
    /\ Len(appends) = 0 =>
          /\ Len(records) = 0
          /\ \A v \in ReadArgs : IsOffsetOutOfRange(ReadResult(records, heap, v))
          /\ call.op = "read" => IsOffsetOutOfRange(call.res)
    /\ Len(appends) >= 1 => appends[1].ret = 0

\* read(0) has just failed on a log nothing was appended to.
C13_Witness ==
    /\ Len(appends) = 0
    /\ call.op = "read"
    /\ call.arg = 0
    /\ ~call.res.ok

\* -------------------------------------------------------------------- C15
\* C15: after any sequence of append and read calls the length of the log is
\* the number of appends made so far and the offset the next append returns,
\* and no step makes it smaller.
C15_LengthCountsAppends ==
    [][/\ Len(records) = Len(appends)
       /\ Len(records') = Len(appends')
       /\ Len(records') >= Len(records)
       /\ Len(appends') # Len(appends) => call'.ret = Len(records)]_vars

\* Three appends were made and a read past the end has failed since: the
\* length is still three.
C15_Witness ==
    /\ Len(appends) = 3
    /\ Len(records) = 3
    /\ call.op = "read"
    /\ call.arg = 3
    /\ ~call.res.ok

\* -------------------------------------------------------------------- C16
\* C16: read is total and exact: in every reachable state and for every
\* offset, read succeeds exactly when the offset is below the length, and an
\* offset that passes the range check is a valid index of the stored
\* sequence, so the indexing of line 32 never panics.
C16_ReadTotalAndExact ==
    /\ \A v \in ReadArgs :
          LET res == ReadResult(records, heap, v)
          IN  /\ ~res.panic
              /\ res.ok <=> v < Len(records)
              /\ ~OutOfRange(v, MaxSize(records)) => InBounds(records, AsUsize(v))
    /\ call.op = "read" =>
          /\ ~call.res.panic
          /\ call.res.ok <=> call.arg < Len(records)

\* The far end of the offsets has just been read on a log of three records.
C16_Witness ==
    /\ call.op = "read"
    /\ call.arg = BigOffset
    /\ ~call.res.ok
    /\ ~call.res.panic
    /\ Len(records) = 3

\* -------------------------------------------------------------------- C14
\* Log.records and the fields of Record are pub: whoever holds the Log can
\* reach the Vec and its records without going through append or read.

\* log.records.pop(): the last record is removed and its payload dropped.
HolderPop ==
    /\ Len(records) > 0
    /\ LET b == records[Len(records)].value
       IN  /\ records' = SubSeq(records, 1, Len(records) - 1)
           /\ heap' = [heap EXCEPT ![b] = << >>]
           /\ live' = live \ {b}
    /\ call' = [op |-> "field_pop"]
    /\ UNCHANGED <<held, appends, lock, got>>

\* log.records[i].offset = c
HolderSetOffset(i, c) ==
    /\ i < Len(records)
    /\ records[i + 1].offset # c
    /\ records' = [records EXCEPT ![i + 1].offset = c]
    /\ call' = [op |-> "field_offset"]
    /\ UNCHANGED <<heap, live, held, appends, lock, got>>

\* log.records[i].value.clear()
HolderClearValue(i) ==
    /\ i < Len(records)
    /\ heap[records[i + 1].value] # << >>
    /\ heap' = [heap EXCEPT ![records[i + 1].value] = << >>]
    /\ call' = [op |-> "field_value"]
    /\ UNCHANGED <<records, live, held, appends, lock, got>>

\* The holder of a Log: append and read, and the pub fields.  The number of
\* appends is bounded, since records can be popped again.
HolderAppend(p, c) == Len(appends) < MaxLen /\ OwnerAppend(p, c)

NextHolder ==
    \/ \E p \in Payloads, c \in CallerOffsets : HolderAppend(p, c)
    \/ \E offset \in ReadArgs : OwnerRead(offset)
    \/ HolderPop
    \/ \E i \in 0..(MaxLen - 1), c \in CallerOffsets : HolderSetOffset(i, c)
    \/ \E i \in 0..(MaxLen - 1) : HolderClearValue(i)

SpecHolder == Init /\ [][NextHolder]_vars

\* C14: a Log is created empty and is mutated only by append: the stored
\* record sequence changes in no step of its holder other than an append.
C14_OnlyAppendMutates ==
    [][StoredSeq(records', heap') # StoredSeq(records, heap) =>
          (call'.op = "append" /\ Len(appends') = Len(appends) + 1)]_vars

\* -------------------------------------------------------------------- C17
\* Several producers share one log.  append takes &mut self, so the
\* consumer puts the log behind a lock: a producer takes the lock, makes one
\* call, and gives the lock back as the call returns.
Acquire(t) ==
    /\ lock = {}
    /\ lock' = {t}
    /\ UNCHANGED <<records, heap, live, held, call, appends, got>>

\* Producer t, in the lock, appends payload p and keeps the offset it got.
SharedAppend(t, p, c) ==
    /\ lock = {t}
    /\ DoAppend(p, c)
    /\ got' = [got EXCEPT ![t] = @ \cup {[ret |-> call'.ret, value |-> p]}]
    /\ lock' = {}

\* Producer t, in the lock, reads an offset.
SharedRead(t, offset) ==
    /\ lock = {t}
    /\ DoRead(offset)
    /\ lock' = {}
    /\ UNCHANGED got

NextShared ==
    \/ \E t \in Producers : Acquire(t)
    \/ \E t \in Producers, p \in Payloads, c \in CallerOffsets : SharedAppend(t, p, c)
    \/ \E t \in Producers, offset \in ReadArgs : SharedRead(t, offset)

SpecShared == Init /\ [][NextShared]_vars

\* Every offset handed to some producer, with the payload it appended.
AllGot == UNION {got[t] : t \in Producers}

\* C17: with the producers' calls serialized by the lock, under every
\* interleaving the offsets the appends returned are pairwise distinct,
\* they are exactly 0 .. N-1 after N appends, and reading an offset that was
\* returned to a producer yields that producer's payload.
C17_SerializedProducers ==
    /\ \A t, u \in Producers : \A x \in got[t], y \in got[u] :
          x.ret = y.ret => (t = u /\ x = y)
    /\ {x.ret : x \in AllGot} = 0..(Len(appends) - 1)
    /\ Cardinality(AllGot) = Len(appends)
    /\ \A x \in AllGot :
          LET res == ReadResult(records, heap, x.ret)
          IN  res.ok /\ res.ret.value = x.value /\ res.ret.offset = x.ret
    /\ (call.op = "read" /\ call.res.ok) =>
          \E x \in AllGot : x.ret = call.arg /\ x.value = call.res.ret.value

\* Producer 1 appended first and last, producer 2 in between with another
\* payload, and the offset returned to producer 2 has just been read.
C17_Witness ==
    /\ {x.ret : x \in got[1]} = {0, 2}
    /\ got[2] = {[ret |-> 1, value |-> <<98, 99>>]}
    /\ \A x \in got[1] : x.value = <<97>>
    /\ call.op = "read"
    /\ call.arg = 1
    /\ call.res.ok
====
